---- MODULE Spec2Model ----
(***************************************************************************)
(* orthomovie: one run of main() of src/orthomovie/__main__.py, statement  *)
(* by statement, and its helper up_dims().                                 *)
(*                                                                         *)
(* An array is a record [shape, at]: shape is the tuple of axis lengths    *)
(* and at maps every 0-based index tuple of that shape to a value.         *)
(* Intensities are integers.  The percentile limits are exact rationals,   *)
(* held as integers in hundredths of an intensity unit (numpy interpolates *)
(* linearly between two order statistics at a fraction k/100).             *)
(***************************************************************************)
EXTENDS Integers, Sequences, FiniteSets, TLC

VARIABLES pc, err, trace, infile, center, img, lims, slices, uint8, used,
          dims, files, args, result

vars == <<pc, err, trace, infile, center, img, lims, slices, uint8, used,
          dims, files, args, result>>

\* Largest axis length of an input volume.
MaxDim == 3
\* Largest number of time frames of an input volume.
MaxFrames == 2
\* Largest native height or width given to up_dims on its own.
MaxSide == 200
\* Largest voxel value given to the rescaler on its own; its limits are the
\* multiples of half a unit up to half of it.
MaxLim == 6

None == "none"
\* The value of an array variable that has not been assigned yet.
NoArray == [shape |-> <<>>, at |-> <<>>]
Planes == {"xy", "xz", "yz"}

----------------------------------------------------------------------------
(* numpy arrays *)

RECURSIVE Indices(_)
\* The 0-based index tuples of shape s.
Indices(s) ==
    IF s = <<>> THEN {<<>>}
    ELSE {<<i>> \o r : i \in 0..(Head(s) - 1), r \in Indices(Tail(s))}

ndim(a) == Len(a.shape)

\* seq without its k-th entry (k is 1-based).
Drop(seq, k) == SubSeq(seq, 1, k - 1) \o SubSeq(seq, k + 1, Len(seq))

\* seq with e put in as its k-th entry (k is 1-based).
Insert(seq, k, e) == SubSeq(seq, 1, k - 1) \o <<e>> \o SubSeq(seq, k, Len(seq))

\* An integer index k is accepted on an axis of length n when -n <= k < n.
IndexOK(n, k) == -n <= k /\ k < n

\* A negative accepted index counts from the end of the axis.
NormIndex(n, k) == IF k < 0 THEN k + n ELSE k

\* a[..., k, ...]: integer index k on the given axis (0-based), slices elsewhere.
Take(a, axis, k) ==
    [shape |-> Drop(a.shape, axis + 1),
     at    |-> [i \in Indices(Drop(a.shape, axis + 1)) |->
                  a.at[Insert(i, axis + 1, NormIndex(a.shape[axis + 1], k))]]]

RECURSIVE Expand(_, _, _)
\* The index into shape s (from position k on) that the squeezed index i selects.
Expand(s, k, i) ==
    IF k > Len(s) THEN <<>>
    ELSE IF s[k] = 1 THEN <<0>> \o Expand(s, k + 1, i)
    ELSE <<Head(i)>> \o Expand(s, k + 1, Tail(i))

\* Fault variant of Squeeze: no axis is removed.
SqueezeNone(a) == a

\* a.squeeze(): every axis of length 1 is removed.
Squeeze(a) ==
    LET s == SelectSeq(a.shape, LAMBDA n : n # 1)
    IN [shape |-> s, at |-> [i \in Indices(s) |-> a.at[Expand(a.shape, 1, i)]]]

\* np.moveaxis(a, [0, 1, 2], [2, 1, 0]) needs the axes 0, 1 and 2 to exist.
MoveAxisOK(a) == \A ax \in {0, 1, 2} : IndexOK(ndim(a), ax)

\* The axis order moveaxis hands to transpose: the axes that are not moved, with
\* each (destination, source) pair inserted in order of destination.
MoveAxisOrder(a) ==
    LET rest == SelectSeq([k \in 1..ndim(a) |-> k - 1], LAMBDA n : n \notin {0, 1, 2})
    IN Insert(Insert(Insert(rest, 1, 2), 2, 1), 3, 0)

\* a.transpose(order): axis k of the result is axis order[k] of a.
Transpose(a, order) ==
    LET s == [k \in 1..ndim(a) |-> a.shape[order[k] + 1]]
    IN [shape |-> s,
        at |-> [i \in Indices(s) |->
                  a.at[[k \in 1..ndim(a) |->
                          i[CHOOSE j \in 1..ndim(a) : order[j] = k - 1]]]]]

MoveAxis(a) == Transpose(a, MoveAxisOrder(a))

\* np.flip(a, axis=axes): the order of the entries is reversed along each axis.
Flip(a, axes) ==
    [shape |-> a.shape,
     at |-> [i \in Indices(a.shape) |->
               a.at[[k \in 1..ndim(a) |->
                       IF (k - 1) \in axes THEN a.shape[k] - 1 - i[k] ELSE i[k]]]]]

----------------------------------------------------------------------------
(* The numeric library routines main() calls *)

\* Hundredths of an intensity unit: the resolution of the percentile limits.
Unit == 100

Min(a, b) == IF a <= b THEN a ELSE b
Max(a, b) == IF a >= b THEN a ELSE b

\* Integer part of n / d (d > 0), rounded toward zero as int() and astype do.
Trunc(n, d) == IF n >= 0 THEN n \div d ELSE -((-n) \div d)

\* The k-th entry (0-based) of the sorted values of data.
Kth(data, k) ==
    CHOOSE v \in {data[i] : i \in DOMAIN data} :
        /\ Cardinality({i \in DOMAIN data : data[i] < v}) <= k
        /\ k < Cardinality({i \in DOMAIN data : data[i] <= v})

\* np.percentile(data, q), in hundredths: linear interpolation between the
\* order statistics on either side of the position q/100 * (n - 1).
Percentile(data, q) ==
    LET n   == Cardinality(DOMAIN data)
        pos == q * (n - 1)
        i   == pos \div 100
        g   == pos % 100
        a   == Kth(data, i)
    IN IF g = 0 THEN Unit * a ELSE Unit * a + g * (Kth(data, i + 1) - a)

\* np.clip(v, lo, hi)
Clip(v, lo, hi) == Min(Max(v, lo), hi)

\* Fault variant of RescaleIntensity: the value is not clipped to in_range.
RescaleNoClip(v, in_range) ==
    LET imin == in_range[1]
        imax == in_range[2]
    IN IF imin # imax
       THEN <<(Unit * v - imin) * 255, imax - imin>>
       ELSE <<Clip(Unit * v, 0, 255 * Unit), Unit>>

\* rescale_intensity(v, in_range=in_range, out_range=(0, 255)) for one voxel v:
\* the float result, as <<numerator, denominator>>.  in_range is in hundredths.
RescaleIntensity(v, in_range) ==
    LET imin == in_range[1]
        imax == in_range[2]
        c    == Clip(Unit * v, imin, imax)
    IN IF imin # imax
       THEN <<(c - imin) * 255, imax - imin>>
       ELSE <<Clip(c, 0, 255 * Unit), Unit>>

\* .astype(np.uint8) of a float: the fraction is dropped, the integer kept
\* modulo 2^8.
AsUint8(q) == Trunc(q[1], q[2]) % 256

\* rescale_intensity(a, in_range=in_range, out_range=(0, 255)).astype(np.uint8)
RescaleArray(a, in_range) ==
    [shape |-> a.shape,
     at |-> [i \in DOMAIN a.at |-> AsUint8(RescaleIntensity(a.at[i], in_range))]]

----------------------------------------------------------------------------
(* up_dims *)

max_dim == 1024

\* Fault variant of UpDims: the short side is not rounded to a multiple of 16.
UpDimsNoRound(h, w) ==
    IF w > h THEN <<max_dim, Trunc(h * max_dim, w)>>
    ELSE <<Trunc(w * max_dim, h), max_dim>>

\* Fault variant of UpDims: the short side is scaled to half its share.
UpDimsHalf(h, w) ==
    IF w > h THEN <<max_dim, Trunc(h * max_dim, w * 32) * 16>>
    ELSE <<Trunc(w * max_dim, h * 32) * 16, max_dim>>

\* up_dims for a stack of native height h and width w: <<w_up, h_up>>.
\* int((h * max_dim / w) / 16) is the integer part of h * max_dim / (w * 16).
UpDims(h, w) ==
    IF w > h
    THEN <<max_dim, Trunc(h * max_dim, w * 16) * 16>>
    ELSE <<Trunc(w * max_dim, h * 16) * 16, max_dim>>

----------------------------------------------------------------------------
(* Inputs *)

Shapes == (1..MaxDim) \X (1..MaxDim) \X (1..MaxDim) \X (1..MaxFrames)

\* Intensity patterns of the input volumes.
Patterns == {"ramp", "flat"}

\* Position of voxel i in a volume of shape s, x running fastest.
Linear(s, i) == i[1] + s[1] * (i[2] + s[2] * (i[3] + s[3] * i[4]))

\* ramp: every voxel has its own value; flat: one value everywhere.
Intensity(pattern, s, i) == IF pattern = "ramp" THEN Linear(s, i) ELSE 7

\* The 4D array img_nii.get_fdata() returns for a file.
Volume(file) ==
    [shape |-> file.shape,
     at    |-> [i \in Indices(file.shape) |-> Intensity(file.pattern, file.shape, i)]]

\* The input files.
Files == [shape : Shapes, pattern : Patterns]

\* tuple(np.percentile(a, (5, 99))) of each volume a that can be loaded.
Limits == [a \in {Volume(f) : f \in Files} |->
             <<Percentile(a.at, 5), Percentile(a.at, 99)>>]

\* The center coordinates tried on an axis of length n: every index numpy
\* accepts, negative ones included, and one beyond at either end.
Coords(n) == (-(n + 1))..n

\* The centers tried for a volume of shape s: every voxel of the volume, and
\* the origin moved along one axis to each coordinate that is negative or
\* beyond that axis.
Centers(s) ==
    {c \in Coords(s[1]) \X Coords(s[2]) \X Coords(s[3]) :
        \/ \A k \in 1..3 : c[k] \in 0..(s[k] - 1)
        \/ \E k \in 1..3 : \A j \in (1..3) \ {k} : c[j] = 0}

----------------------------------------------------------------------------
(* main *)

\* Fault variant of StageOrder: each movie is written as soon as it is planned.
StageOrderPlanFirst ==
    <<"load", "percentile",
      "slice_xy", "slice_xz", "slice_yz",
      "reorder_xy", "reorder_xz", "reorder_yz",
      "rescale_xy", "rescale_xz", "rescale_yz",
      "up_dims_xy", "encode_xy", "up_dims_xz", "encode_xz",
      "up_dims_yz", "encode_yz">>

\* The statements of main in program order.
StageOrder ==
    <<"load", "percentile",
      "slice_xy", "slice_xz", "slice_yz",
      "reorder_xy", "reorder_xz", "reorder_yz",
      "rescale_xy", "rescale_xz", "rescale_yz",
      "up_dims_xy", "up_dims_xz", "up_dims_yz",
      "encode_xy", "encode_xz", "encode_yz">>

\* The statement after stage st, "done" after the last.
After(st) ==
    LET k == CHOOSE j \in 1..Len(StageOrder) : StageOrder[j] = st
    IN IF k = Len(StageOrder) THEN "done" ELSE StageOrder[k + 1]

\* The axis of img an orthoslice fixes and the center coordinate it fixes it at.
FixedAxis(p) == CASE p = "xy" -> 2 [] p = "xz" -> 1 [] p = "yz" -> 0
FixedCoord(p) == CASE p = "xy" -> center[3] [] p = "xz" -> center[2] [] p = "yz" -> center[1]

\* Fault variant of FlipAxes: the yz stack is flipped like the other two.
FlipAxesHeightOnly(p) == {1}

\* The axes flipped after the time axis is moved to the front.
FlipAxes(p) == IF p = "yz" THEN {1, 2} ELSE {1}

\* Fault variant of InRange: the range is recomputed from the stack itself.
InRangeOfStack(p) == <<Percentile(slices[p].at, 5), Percentile(slices[p].at, 99)>>

\* The in_range argument of the rescale of plane p.
InRange(p) == lims

\* The name suffix of the movie of plane p (between img_stub and ".mp4").
Suffix(p) == "_" \o p

\* Fault variant of FilesAfter: the new movie replaces the earlier ones.
FilesAfterOverwrite(written, p) == <<Suffix(p)>>

\* The output files after mimwrite has written the movie of plane p.
FilesAfter(written, p) == Append(written, Suffix(p))

Idle == /\ args = None
        /\ result = None

Init ==
    /\ pc = "load"
    /\ err = None
    /\ trace = <<>>
    /\ infile \in Files
    /\ center \in Centers(infile.shape)
    /\ img = NoArray
    /\ lims = None
    /\ slices = [p \in Planes |-> NoArray]
    /\ uint8 = [p \in Planes |-> NoArray]
    /\ used = [p \in Planes |-> None]
    /\ dims = [p \in Planes |-> None]
    /\ files = <<>>
    /\ Idle

\* A statement st completes and control moves to the next one.
Step(st) ==
    /\ pc = st
    /\ pc' = After(st)
    /\ trace' = Append(trace, st)
    /\ UNCHANGED <<err, infile, center, args, result>>

\* A statement st raises: nothing catches it and the run ends.
Raise(st) ==
    /\ pc = st
    /\ pc' = "error"
    /\ err' = st
    /\ trace' = Append(trace, st)
    /\ UNCHANGED <<infile, center, img, lims, slices, uint8, used, dims, files, args, result>>

Load ==
    /\ pc = "load"
    /\ Step("load")
    /\ img' = Volume(infile)
    /\ UNCHANGED <<lims, slices, uint8, used, dims, files>>

\* The file is missing or unreadable.
LoadFail ==
    /\ pc = "load"
    /\ Raise("load")

PercentileStep ==
    /\ pc = "percentile"
    /\ Step("percentile")
    /\ lims' = Limits[img]
    /\ UNCHANGED <<img, slices, uint8, used, dims, files>>

Slice(p) ==
    /\ pc = "slice_" \o p
    /\ IndexOK(img.shape[FixedAxis(p) + 1], FixedCoord(p))
    /\ Step("slice_" \o p)
    /\ slices' = [slices EXCEPT ![p] = Squeeze(Take(img, FixedAxis(p), FixedCoord(p)))]
    /\ UNCHANGED <<img, lims, uint8, used, dims, files>>

\* IndexError: the coordinate is out of bounds for its axis.
SliceFail(p) ==
    /\ pc = "slice_" \o p
    /\ ~IndexOK(img.shape[FixedAxis(p) + 1], FixedCoord(p))
    /\ Raise("slice_" \o p)

Reorder(p) ==
    /\ pc = "reorder_" \o p
    /\ MoveAxisOK(slices[p])
    /\ Step("reorder_" \o p)
    /\ slices' = [slices EXCEPT ![p] = Flip(MoveAxis(slices[p]), FlipAxes(p))]
    /\ UNCHANGED <<img, lims, uint8, used, dims, files>>

\* AxisError: the stack has lost an axis.
ReorderFail(p) ==
    /\ pc = "reorder_" \o p
    /\ ~MoveAxisOK(slices[p])
    /\ Raise("reorder_" \o p)

Rescale(p) ==
    /\ pc = "rescale_" \o p
    /\ Step("rescale_" \o p)
    /\ uint8' = [uint8 EXCEPT ![p] = RescaleArray(slices[p], InRange(p))]
    /\ used' = [used EXCEPT ![p] = InRange(p)]
    /\ UNCHANGED <<img, lims, slices, dims, files>>

Plan(p) ==
    /\ pc = "up_dims_" \o p
    /\ Step("up_dims_" \o p)
    /\ dims' = [dims EXCEPT ![p] = UpDims(uint8[p].shape[2], uint8[p].shape[3])]
    /\ UNCHANGED <<img, lims, slices, uint8, used, files>>

Encode(p) ==
    /\ pc = "encode_" \o p
    /\ Step("encode_" \o p)
    /\ files' = FilesAfter(files, p)
    /\ UNCHANGED <<img, lims, slices, uint8, used, dims>>

\* The encoder fails.
EncodeFail(p) ==
    /\ pc = "encode_" \o p
    /\ Raise("encode_" \o p)

Next ==
    \/ Load
    \/ LoadFail
    \/ PercentileStep
    \/ \E p \in Planes : Slice(p)
    \/ \E p \in Planes : SliceFail(p)
    \/ \E p \in Planes : Reorder(p)
    \/ \E p \in Planes : ReorderFail(p)
    \/ \E p \in Planes : Rescale(p)
    \/ \E p \in Planes : Plan(p)
    \/ \E p \in Planes : Encode(p)
    \/ \E p \in Planes : EncodeFail(p)

Spec == Init /\ [][Next]_vars

----------------------------------------------------------------------------
(* up_dims and the rescaler on their own *)

NoRun ==
    /\ err = None
    /\ trace = <<>>
    /\ infile = None
    /\ center = None
    /\ img = NoArray
    /\ lims = None
    /\ slices = [p \in Planes |-> NoArray]
    /\ uint8 = [p \in Planes |-> NoArray]
    /\ used = [p \in Planes |-> None]
    /\ dims = [p \in Planes |-> None]
    /\ files = <<>>

NoRunStep ==
    UNCHANGED <<err, trace, infile, center, img, lims, slices, uint8, used, dims, files>>

InitUpDims ==
    /\ pc = "up_dims"
    /\ args \in [h : 1..MaxSide, w : 1..MaxSide]
    /\ result = None
    /\ NoRun

\* w_up, h_up = up_dims(im) for a stack im of shape (nt, args.h, args.w)
UpDimsCall ==
    /\ pc = "up_dims"
    /\ pc' = "up_dims_done"
    /\ result' = UpDims(args.h, args.w)
    /\ UNCHANGED args
    /\ NoRunStep

SpecUpDims == InitUpDims /\ [][UpDimsCall]_vars

\* Limits in hundredths, low <= high as percentiles are, and a voxel value.
InitRescale ==
    /\ pc = "rescale"
    /\ args \in {a \in [v : (-MaxLim)..MaxLim,
                        lo : {(Unit \div 2) * k : k \in (-MaxLim)..MaxLim},
                        hi : {(Unit \div 2) * k : k \in (-MaxLim)..MaxLim}] :
                   a.lo <= a.hi}
    /\ result = None
    /\ NoRun

\* rescale_intensity(v, in_range=(lo, hi), out_range=(0, 255)).astype(np.uint8)
RescaleCall ==
    /\ pc = "rescale"
    /\ pc' = "rescale_done"
    /\ result' = AsUint8(RescaleIntensity(args.v, <<args.lo, args.hi>>))
    /\ UNCHANGED args
    /\ NoRunStep

SpecRescale == InitRescale /\ [][RescaleCall]_vars

----------------------------------------------------------------------------
(* Properties *)

Terminated == pc \in {"done", "error"}

SliceStages   == {"slice_xy", "slice_xz", "slice_yz"}
ReorderStages == {"reorder_xy", "reorder_xz", "reorder_yz"}
RescaleStages == {"rescale_xy", "rescale_xz", "rescale_yz"}
EncodeStages  == {"encode_xy", "encode_xz", "encode_yz"}

\* The stages that have run so far.
Ran == {trace[k] : k \in 1..Len(trace)}

IsPrefix(a, b) == Len(a) <= Len(b) /\ a = SubSeq(b, 1, Len(a))

\* 0 <= x0 < nx, 0 <= y0 < ny, 0 <= z0 < nz
CenterInRange == \A k \in 1..3 : 0 <= center[k] /\ center[k] < infile.shape[k]

\* Some axis of the volume has length 1.
Degenerate == \E k \in 1..4 : infile.shape[k] = 1

ThreeFiles == <<"_xy", "_xz", "_yz">>

\* C1: a run on a valid input (every axis of length 1 or more, the center inside
\* the volume) whose load and encoder do not fail ends with exactly the three
\* files _xy, _xz and _yz written.
C1_ValidInputThreeFiles ==
    (CenterInRange /\ Terminated /\ err \notin ({"load"} \cup EncodeStages))
        => (pc = "done" /\ files = ThreeFiles)

\* C2: the intensity range is computed once, from the whole volume and before
\* any slice is taken, and every rescale receives exactly that pair, which is
\* still the value of lims afterwards.
C2_OneSharedRange ==
    /\ Cardinality({k \in 1..Len(trace) : trace[k] = "percentile"}) <= 1
    /\ \A k \in 1..Len(trace) :
          trace[k] \in SliceStages \cup RescaleStages
             => \E j \in 1..(k - 1) : trace[j] = "percentile"
    /\ lims # None => lims = Limits[img]
    /\ \A p \in Planes : used[p] # None => (used[p] = lims /\ lims = Limits[img])
    /\ \A p \in Planes : (("rescale_" \o p) \in Ran) <=> used[p] # None

C2_Witness ==
    /\ pc = "done"
    /\ \A p \in Planes : used[p] = lims
    /\ lims[1] < lims[2]

\* C3: with low < high the rescaled 8-bit value of any voxel value is an integer
\* in 0..255, it is 0 for every value <= low and 255 for every value >= high.
C3_Clamped ==
    (pc = "rescale_done" /\ args.lo < args.hi)
        => /\ result \in 0..255
           /\ Unit * args.v <= args.lo => result = 0
           /\ Unit * args.v >= args.hi => result = 255

C3_Witness ==
    /\ pc = "rescale_done"
    /\ args.lo < args.hi
    /\ Unit * args.v > args.hi + 2 * (args.hi - args.lo)
    /\ result = 255

\* C4: up_dims sets the larger of width and height to 1024 (both when they are
\* equal), the other to the largest multiple of 16 not above short * 1024 / long;
\* both results are multiples of 16 and at most 1024, in the order (width,
\* height); h = 100, w = 200 gives width 1024 and height 512.
C4_UpDims ==
    pc = "up_dims_done" =>
        LET h     == args.h
            w     == args.w
            w_up  == result[1]
            h_up  == result[2]
            long  == IF w > h THEN w ELSE h
            short == IF w > h THEN h ELSE w
            other == IF w > h THEN h_up ELSE w_up
        IN /\ w > h => w_up = 1024
           /\ h > w => h_up = 1024
           /\ w = h => (w_up = 1024 /\ h_up = 1024)
           /\ other % 16 = 0
           /\ other * long <= short * 1024
           /\ short * 1024 < (other + 16) * long
           /\ w_up % 16 = 0 /\ h_up % 16 = 0
           /\ w_up <= 1024 /\ h_up <= 1024
           /\ (h = 100 /\ w = 200) => result = <<1024, 512>>

C4_Witness ==
    /\ pc = "up_dims_done"
    /\ args = [h |-> 100, w |-> 200]
    /\ result = <<1024, 512>>

\* C5: for a volume with every axis of length 2 or more and a center inside it,
\* each reordered stack has time first and xy[t][r][c] = img[c, ny-1-r, z0, t]
\* with shape (nt, ny, nx), xz[t][r][c] = img[c, y0, nz-1-r, t] with shape
\* (nt, nz, nx), yz[t][r][c] = img[x0, ny-1-c, nz-1-r, t] with shape (nt, nz, ny).
C5_SliceConvention ==
    (CenterInRange /\ \A k \in 1..4 : infile.shape[k] >= 2) =>
        LET nx == infile.shape[1]
            ny == infile.shape[2]
            nz == infile.shape[3]
            nt == infile.shape[4]
            x0 == center[1]
            y0 == center[2]
            z0 == center[3]
        IN /\ "reorder_xy" \in Ran =>
                /\ slices["xy"].shape = <<nt, ny, nx>>
                /\ \A t \in 0..(nt - 1), r \in 0..(ny - 1), c \in 0..(nx - 1) :
                      slices["xy"].at[<<t, r, c>>] = img.at[<<c, ny - 1 - r, z0, t>>]
           /\ "reorder_xz" \in Ran =>
                /\ slices["xz"].shape = <<nt, nz, nx>>
                /\ \A t \in 0..(nt - 1), r \in 0..(nz - 1), c \in 0..(nx - 1) :
                      slices["xz"].at[<<t, r, c>>] = img.at[<<c, y0, nz - 1 - r, t>>]
           /\ "reorder_yz" \in Ran =>
                /\ slices["yz"].shape = <<nt, nz, ny>>
                /\ \A t \in 0..(nt - 1), r \in 0..(nz - 1), c \in 0..(ny - 1) :
                      slices["yz"].at[<<t, r, c>>] = img.at[<<x0, ny - 1 - c, nz - 1 - r, t>>]

C5_Witness ==
    /\ infile = [shape |-> <<3, 2, 3, 2>>, pattern |-> "ramp"]
    /\ center = <<2, 0, 1>>
    /\ ReorderStages \subseteq Ran
    /\ slices["yz"].shape = <<2, 3, 2>>

\* C6: when a center coordinate is outside 0..n-1 on its axis (negative values
\* included) the slicing does not complete, the run does not end normally and
\* no output file is written.
C6_OutOfRangeRaises ==
    ~CenterInRange =>
        /\ \E p \in Planes : slices[p] = NoArray
        /\ pc # "done"
        /\ files = <<>>

\* The order of the stages of one run.
PipelineOrder ==
    <<"load", "percentile",
      "slice_xy", "slice_xz", "slice_yz",
      "reorder_xy", "reorder_xz", "reorder_yz",
      "rescale_xy", "rescale_xz", "rescale_yz",
      "up_dims_xy", "up_dims_xz", "up_dims_yz",
      "encode_xy", "encode_xz", "encode_yz">>

C7_Step ==
    /\ ~Terminated
    /\ Len(trace) < Len(PipelineOrder)
    /\ trace' = Append(trace, PipelineOrder[Len(trace) + 1])
    /\ pc' = "error" => err' = trace'[Len(trace')]
    /\ (Ran' \cap RescaleStages # {}) => lims' # None
    /\ files' # <<>> => \A p \in Planes : uint8'[p] # NoArray /\ dims'[p] # None

\* C7: every step of a run executes the next stage of the order load,
\* percentile, slice xy xz yz, reorder, rescale, up_dims, encode xy xz yz: no
\* stage runs twice or out of turn, the range exists before any rescale, all
\* stacks are rescaled and all dimensions planned before the first file is
\* written, and nothing runs after a stage has failed.
C7_StageOrder == [][C7_Step]_vars

C7_Witness ==
    /\ pc = "error"
    /\ err = "encode_xz"
    /\ trace = SubSeq(PipelineOrder, 1, 16)

C8_Step ==
    /\ IsPrefix(files, files')
    /\ IsPrefix(files', ThreeFiles)
    /\ pc' = "done" => files' = ThreeFiles
    /\ ~Terminated

\* C8: the files written so far are always a prefix of (_xy, _xz, _yz); a step
\* only ever adds the next file, never removes or replaces one; a run that
\* ends normally has written all three, and the files of a failed run stay.
C8_FilesPrefix == [][C8_Step]_vars

C8_Witness ==
    /\ pc = "error"
    /\ err = "encode_yz"
    /\ files = <<"_xy", "_xz">>

\* C9: for a volume with an axis of length 1 and a center inside it, the squeeze
\* leaves some stack with fewer than 3 axes, the reorder of such a stack fails,
\* and the run ends in error with no stack rescaled and no file written.
C9_DegenerateFails ==
    (Degenerate /\ CenterInRange) =>
        /\ files = <<>>
        /\ pc # "done"
        /\ Ran \cap (RescaleStages \cup EncodeStages) = {}
        /\ \A p \in Planes : uint8[p] = NoArray
        /\ "slice_yz" \in Ran => \E p \in Planes : ndim(slices[p]) < 3
        /\ (pc = "error" /\ err # "load") =>
              \E p \in Planes : err = "reorder_" \o p /\ ndim(slices[p]) < 3
        /\ pc \in {"load", "percentile", "error"} \cup SliceStages \cup ReorderStages

C9_Witness ==
    /\ Degenerate
    /\ CenterInRange
    /\ pc = "error"
    /\ err = "reorder_xz"
    /\ ndim(slices["xy"]) = 3
    /\ ndim(slices["xz"]) = 2

\* C10: for h >= 1 and w >= 1 up_dims returns 0 for the shorter side exactly
\* when the longer side is more than 64 times the shorter one; otherwise both
\* results are at least 16.
C10_ZeroDimension ==
    pc = "up_dims_done" =>
        LET h == args.h
            w == args.w
        IN /\ (result[1] = 0 \/ result[2] = 0) <=> (w > 64 * h \/ h > 64 * w)
           /\ w > 64 * h => (result[2] = 0 /\ result[1] # 0)
           /\ h > 64 * w => (result[1] = 0 /\ result[2] # 0)
           /\ ~(w > 64 * h \/ h > 64 * w) => (result[1] >= 16 /\ result[2] >= 16)

C10_Witness ==
    /\ pc = "up_dims_done"
    /\ args = [h |-> 2, w |-> 129]
    /\ result = <<1024, 0>>

====
